---- MODULE Spec2Model ----
(***************************************************************************)
(* The gradient-based optimizer family of NeuralNetworks/code/             *)
(* implementation/optimizers.py: the batch planner, the shared epoch /     *)
(* shuffle / mini-batch loop and the five update rules, as one state       *)
(* machine per optimize call.                                              *)
(*                                                                         *)
(* Numbers.  A Python int is a TLA+ integer.  A float (or an element of a  *)
(* float array) is a record: a finite value in fixed point (v / Scale),    *)
(* a NaN, or a signed infinity, with numpy's rules for the non-finite      *)
(* cases (x/0 gives inf or nan with a warning, never an exception); a       *)
(* result beyond the largest finite magnitude overflows to an infinity.    *)
(* An array of rows (X, y) is a sequence of sample identities; a parameter *)
(* tensor is a sequence of floats, combined elementwise with numpy's       *)
(* broadcasting rule for one-dimensional shapes.                           *)
(***************************************************************************)
EXTENDS Integers, Sequences, FiniteSets

\* ------------------------------------------------------------- bounds
MaxN == 3          \* largest sample count X.shape[0]
MaxEpoch == 2      \* largest max_num_epoch
MaxLen == 2        \* longest gradient the gradient source returns
Scale == 10 * 10 * 10   \* fixed-point resolution of a float: 1.0 is Scale
MaxFloat == Scale * Scale   \* largest finite magnitude (1000.0): beyond it, inf

\* ------------------------------------------------------------- floats
F(n) == [k |-> "fin", v |-> n]
NaN == [k |-> "nan", v |-> 0]
Inf(s) == [k |-> "inf", v |-> s]
Unused == [k |-> "unused", v |-> 0]

Abs(n) == IF n < 0 THEN -n ELSE n
Sgn(n) == IF n < 0 THEN -1 ELSE 1

\* n / d rounded to the nearest integer (ties away from zero), d # 0
RoundDiv(n, d) == Sgn(n) * Sgn(d) * ((2 * Abs(n) + Abs(d)) \div (2 * Abs(d)))

\* Python's int(a / b) for ints a, b with b # 0: truncation toward zero
TruncDiv(a, b) == Sgn(a) * Sgn(b) * (Abs(a) \div Abs(b))

RECURSIVE ISqrtBetween(_, _, _)
ISqrtBetween(lo, hi, n) ==
    IF lo >= hi THEN lo
    ELSE LET mid == (lo + hi + 1) \div 2
         IN IF mid * mid <= n THEN ISqrtBetween(mid, hi, n)
            ELSE ISqrtBetween(lo, mid - 1, n)

\* the integer square root (floor) of n >= 0
ISqrt(n) == ISqrtBetween(0, IF n < 46340 THEN n ELSE 46340, n)

\* the float a result n rounds to: finite, or overflowed
Round(n) == IF n > MaxFloat THEN Inf(1) ELSE IF n < -MaxFloat THEN Inf(-1) ELSE F(n)

\* a * b / Scale to the nearest integer, without an intermediate beyond 32 bits
MulDiv(a, b) ==
    LET q == Abs(a) \div Scale
        r == Abs(a) % Scale
    IN Sgn(a) * Sgn(b) * (q * Abs(b) + RoundDiv(r * Abs(b), Scale))

FNeg(a) == IF a.k = "nan" THEN NaN ELSE [k |-> a.k, v |-> -a.v]

FAdd(a, b) ==
    IF a.k = "nan" \/ b.k = "nan" THEN NaN
    ELSE IF a.k = "inf" /\ b.k = "inf" THEN (IF a.v = b.v THEN a ELSE NaN)
    ELSE IF a.k = "inf" THEN a
    ELSE IF b.k = "inf" THEN b
    ELSE Round(a.v + b.v)

FSub(a, b) == FAdd(a, FNeg(b))

FMul(a, b) ==
    IF a.k = "nan" \/ b.k = "nan" THEN NaN
    ELSE IF a.k = "inf" \/ b.k = "inf"
         THEN (IF a.v = 0 \/ b.v = 0 THEN NaN ELSE Inf(Sgn(a.v) * Sgn(b.v)))
    ELSE Round(MulDiv(a.v, b.v))

FDiv(a, b) ==
    IF a.k = "nan" \/ b.k = "nan" THEN NaN
    ELSE IF a.k = "inf" THEN (IF b.k = "inf" THEN NaN ELSE Inf(a.v * Sgn(b.v)))
    ELSE IF b.k = "inf" THEN F(0)
    ELSE IF b.v = 0 THEN (IF a.v = 0 THEN NaN ELSE Inf(Sgn(a.v)))
    ELSE Round(RoundDiv(a.v * Scale, b.v))

FSqrt(a) ==
    IF a.k = "nan" THEN NaN
    ELSE IF a.k = "inf" THEN (IF a.v > 0 THEN a ELSE NaN)
    ELSE IF a.v < 0 THEN NaN
    ELSE F(ISqrt(a.v * Scale))

\* Python's a ** n for a float a and an int n >= 0
RECURSIVE FPow(_, _)
FPow(a, n) == IF n = 0 THEN F(Scale) ELSE FMul(a, FPow(a, n - 1))

One == F(Scale)

\* ------------------------------------------------------------- tensors
\* numpy broadcasting of two one-dimensional shapes
Compatible(a, b) == Len(a) = Len(b) \/ Len(a) = 1 \/ Len(b) = 1
BLen(a, b) == IF Len(a) >= Len(b) THEN Len(a) ELSE Len(b)
Elem(a, i) == IF Len(a) = 1 THEN a[1] ELSE a[i]

TAdd(a, b) == [i \in 1..BLen(a, b) |-> FAdd(Elem(a, i), Elem(b, i))]
TSub(a, b) == [i \in 1..BLen(a, b) |-> FSub(Elem(a, i), Elem(b, i))]
TMul(a, b) == [i \in 1..BLen(a, b) |-> FMul(Elem(a, i), Elem(b, i))]
TDiv(a, b) == [i \in 1..BLen(a, b) |-> FDiv(Elem(a, i), Elem(b, i))]
TScale(s, a) == [i \in 1..Len(a) |-> FMul(s, a[i])]
TPlus(a, s) == [i \in 1..Len(a) |-> FAdd(a[i], s)]
TOver(a, s) == [i \in 1..Len(a) |-> FDiv(a[i], s)]
TSqrt(a) == [i \in 1..Len(a) |-> FSqrt(a[i])]
TSquare(a) == [i \in 1..Len(a) |-> FMul(a[i], a[i])]
zeros_like(a) == [i \in 1..Len(a) |-> F(0)]


\* ------------------------------------------------------------- arguments
PyInt(n) == [type |-> "int", n |-> n, d |-> 1]
PyFloat(n, d) == [type |-> "float", n |-> n, d |-> d]
None == [type |-> "None", n |-> 0, d |-> 1]

MiniBatch == "mini_batch_gradient_descent"
SGD == "stochastic_gradient_descent"
FullBatch == "full_batch_gradient_descent"
Momentum == "mini_batch_gradient_descent_with_momentum"
Adagrad == "adagrad"
RMSProp == "rmsprop"
Adam == "adam"

Wrappers == {SGD, FullBatch}
Classes == {MiniBatch, SGD, FullBatch, Momentum, Adagrad, RMSProp, Adam}

\* the batch_size default of mini_batch_gradient_descent.optimize
DefaultBatchSize == 42

\* requested batch sizes: negative, zero, positive ints and a non-integer
BatchSizes == {PyInt(n) : n \in -1..(MaxN - 1)} \cup {PyFloat(5, 2)}
\* requested batch fractions: absent, 0, 0.75, 1 (int), 1.5
BatchFractions == {None, PyFloat(0, 1), PyFloat(3, 4), PyInt(1), PyFloat(3, 2)}
\* decay rates: 0.5 and (outside [0, 1)) 1.0
Decays == {F(Scale \div 2), F(Scale)}
\* epsilons: 0.001 and (not positive) -1.0
Epsilons == {F(1), F(-Scale)}
LearningRates == {F(Scale \div 10)}
\* The gradient sources the caller may pass: the constant gradients 0.0 and
\* 1.0, and the gradient theta + 1 of the loss (theta + 1)^2 / 2.  A source
\* may break its contract on any call by returning another shape.
GradientSources == {"zero", "one", "pull"}
GradientOf(src, theta, l) ==
    [i \in 1..l |->
        CASE src = "zero" -> F(0)
          [] src = "one" -> F(Scale)
          [] src = "pull" ->
                FAdd(theta[IF i <= Len(theta) THEN i ELSE Len(theta)], F(Scale))]
\* the caller's initial parameters
InitialSolutions == {[i \in 1..l |-> F(0)] : l \in 1..2}
InputKinds == {"ndarray", "DataFrame"}

\* the keyword parameters each optimize signature has besides the batch
\* ones: the valid setting, and the settings with one kind of invalid value
Hypers(c) ==
    LET H(ds, ss, es) == {[momentum_decay |-> m, squared_gradient_decay |-> s,
                           epsilon |-> e] : m \in ds, s \in ss, e \in es}
        OneInvalid(h) == h.epsilon = F(1) \/ h.squared_gradient_decay # F(Scale)
    IN CASE c = Momentum -> H(Decays, {Unused}, {Unused})
         [] c = Adagrad -> H({Unused}, {Unused}, Epsilons)
         [] c = RMSProp -> {h \in H({Unused}, Decays, Epsilons) : OneInvalid(h)}
         [] c = Adam -> {h \in H(Decays, Decays, Epsilons) :
                            /\ h.momentum_decay = h.squared_gradient_decay
                            /\ OneInvalid(h)}
         [] OTHER -> H({Unused}, {Unused}, {Unused})

\* ------------------------------------------------------------- planner
\* the planner without the range assertion on batch_fraction
plan_without_fraction_check(bs, bf, N) ==
    IF bs.type # "int"
    THEN [err |-> "AssertionError", batch_size |-> bs, iterations |-> 0]
    ELSE LET b == IF bf.type # "None" THEN PyInt(TruncDiv(N * bf.n, bf.d)) ELSE bs
         IN IF b.n = 0
            THEN [err |-> "ZeroDivisionError", batch_size |-> b, iterations |-> 0]
            ELSE [err |-> "none", batch_size |-> b,
                  iterations |-> TruncDiv(N, b.n)]

\* the planner with the computed batch size not replacing the requested one
plan_without_override(bs, bf, N) ==
    IF bs.type # "int"
    THEN [err |-> "AssertionError", batch_size |-> bs, iterations |-> 0]
    ELSE IF bf.type # "None" /\ ~(0 < bf.n /\ bf.n <= bf.d)
    THEN [err |-> "AssertionError", batch_size |-> bs, iterations |-> 0]
    ELSE IF bs.n = 0
    THEN [err |-> "ZeroDivisionError", batch_size |-> bs, iterations |-> 0]
    ELSE [err |-> "none", batch_size |-> bs, iterations |-> TruncDiv(N, bs.n)]

\* Optimizer.calculate_batch_size_and_iteration, N being X.shape[0]
calculate_batch_size_and_iteration(bs, bf, N) ==
    IF bs.type # "int"
    THEN [err |-> "AssertionError", batch_size |-> bs, iterations |-> 0]
    ELSE IF bf.type # "None" /\ ~(0 < bf.n /\ bf.n <= bf.d)
    THEN [err |-> "AssertionError", batch_size |-> bs, iterations |-> 0]
    ELSE LET b == IF bf.type # "None" THEN PyInt(TruncDiv(N * bf.n, bf.d)) ELSE bs
         IN IF b.n = 0
            THEN [err |-> "ZeroDivisionError", batch_size |-> b, iterations |-> 0]
            ELSE [err |-> "none", batch_size |-> b,
                  iterations |-> TruncDiv(N, b.n)]

\* ------------------------------------------------------------- update rules
\* The body of the inner loop after the gradient call, per class.  Each
\* returns the locals after the body; err is the exception numpy raises when
\* two operand shapes cannot be broadcast (the statement it aborts assigns
\* nothing, earlier statements of the body keep their effect).
Locals(cs, m, s, c, e) ==
    [current_solution |-> cs, momentum |-> m, squared_gradients |-> s,
     counter |-> c, err |-> e]

mini_batch_step(cs, m, s, c, g, lr) ==
    IF ~Compatible(cs, g) THEN Locals(cs, m, s, c, "ValueError")
    ELSE Locals(TSub(cs, TScale(lr, g)), m, s, c, "none")

\* the momentum rule with the gradient term added instead of subtracted
momentum_step_ascent(cs, m, s, c, g, lr, md) ==
    IF ~Compatible(m, g) THEN Locals(cs, m, s, c, "ValueError")
    ELSE LET m2 == TAdd(TScale(md, m), TScale(lr, g))
         IN IF ~Compatible(cs, m2) THEN Locals(cs, m2, s, c, "ValueError")
            ELSE Locals(TAdd(cs, m2), m2, s, c, "none")

momentum_step(cs, m, s, c, g, lr, md) ==
    IF ~Compatible(m, g) THEN Locals(cs, m, s, c, "ValueError")
    ELSE LET m2 == TSub(TScale(md, m), TScale(lr, g))
         IN IF ~Compatible(cs, m2) THEN Locals(cs, m2, s, c, "ValueError")
            ELSE Locals(TAdd(cs, m2), m2, s, c, "none")

adagrad_step(cs, m, s, c, g, lr, eps) ==
    \* squared_gradients += gradient**2 is in place: the result must keep
    \* the shape of squared_gradients
    IF ~(Len(g) = Len(s) \/ Len(g) = 1) THEN Locals(cs, m, s, c, "ValueError")
    ELSE LET s2 == TAdd(s, TSquare(g))
             q == TDiv(TScale(lr, g), TPlus(TSqrt(s2), eps))
         IN IF ~Compatible(cs, q) THEN Locals(cs, m, s2, c, "ValueError")
            ELSE Locals(TSub(cs, q), m, s2, c, "none")

rmsprop_step(cs, m, s, c, g, lr, sd, eps) ==
    IF ~Compatible(s, g) THEN Locals(cs, m, s, c, "ValueError")
    ELSE LET s2 == TAdd(TScale(sd, s), TScale(FSub(One, sd), TSquare(g)))
             q == TDiv(TScale(lr, g), TPlus(TSqrt(s2), eps))
         IN IF ~Compatible(cs, q) THEN Locals(cs, m, s2, c, "ValueError")
            ELSE Locals(TSub(cs, q), m, s2, c, "none")

adam_step(cs, m, s, c, g, lr, md, sd, eps) ==
    IF ~Compatible(m, g) THEN Locals(cs, m, s, c, "ValueError")
    ELSE LET m2 == TAdd(TScale(md, m), TScale(FSub(One, md), g))
         IN IF ~Compatible(s, g) THEN Locals(cs, m2, s, c, "ValueError")
            ELSE LET s2 == TAdd(TScale(sd, s), TScale(FSub(One, sd), TSquare(g)))
                     c2 == c + 1
                     cm == TOver(m2, FSub(One, FPow(md, c2)))
                     csg == TOver(s2, FSub(One, FPow(sd, c2)))
                     q == TDiv(TScale(lr, cm), TPlus(TSqrt(csg), eps))
                 IN IF ~Compatible(cs, q)
                    THEN Locals(cs, m2, s2, c2, "ValueError")
                    ELSE Locals(TSub(cs, q), m2, s2, c2, "none")


\* ------------------------------------------------------------- state
VARIABLES
    pc,                     \* "call", "epoch", "batch", "done", "error"
    entry,                  \* the class whose optimize the caller invoked
    cls,                    \* the class whose optimize body is running
    heap,                   \* the array objects: the caller's and the working ones
    Xref, yref,             \* the objects the locals X and y are bound to
    batch_size, batch_fraction, iterations,
    max_num_epoch, learning_rate,
    momentum_decay, squared_gradient_decay, epsilon,
    initial_solution,       \* the caller's parameter array
    calculate_gradient,     \* the caller's gradient source
    current_solution, momentum, squared_gradients, counter,
    epoch,                  \* index of the outer loop
    idx,                    \* index of the inner loop
    gradient,               \* what the last gradient call returned
    X_selected, y_selected, \* the batch the last gradient call was given
    calls,                  \* number of gradient calls made
    batches,                \* the batches the gradient source was given in
                            \* the running epoch, in call order
    output,                 \* what was printed, in order
    err,                    \* the exception that ended the call, or "none"
    result                  \* the returned solution

data == <<heap, Xref, yref>>
plan == <<batch_size, batch_fraction, iterations>>
hyper == <<max_num_epoch, learning_rate, momentum_decay, squared_gradient_decay,
           epsilon, initial_solution, calculate_gradient>>
locals == <<current_solution, momentum, squared_gradients, counter>>
batch == <<gradient, X_selected, y_selected, calls>>
vars == <<pc, entry, cls, data, plan, hyper, locals, epoch, idx, batch,
          batches, output, err, result>>

Ident(n) == [i \in 1..n |-> i]
IndexPermutations(n) == {p \in [1..n -> 1..n] : \A i, j \in 1..n : p[i] = p[j] => i = j}
\* a[p] for an index array p
Take(a, p) == [i \in 1..Len(p) |-> a[p[i]]]
Min(a, b) == IF a <= b THEN a ELSE b
\* a[lo:hi] for 0 <= lo <= hi
Slice(a, lo, hi) == SubSeq(a, lo + 1, Min(hi, Len(a)))

\* X.shape[0]
Shape0(h, ref) == Len(h[ref])

\* The call: its arguments bound, the body not yet started.  The wrappers
\* take no batch_size / batch_fraction; theirs are the defaults of
\* mini_batch_gradient_descent.optimize until they delegate.
Init ==
    /\ pc = "call"
    /\ entry \in Classes
    /\ cls = entry
    /\ \E n \in 0..MaxN :
          heap = [callerX |-> Ident(n), callerY |-> Ident(n),
                  workX |-> <<>>, workY |-> <<>>]
    /\ Xref = "callerX"
    /\ yref = "callerY"
    /\ IF entry \in Wrappers
       THEN batch_size = PyInt(DefaultBatchSize) /\ batch_fraction = None
       ELSE batch_size \in BatchSizes /\ batch_fraction \in BatchFractions
    /\ iterations = 0
    /\ max_num_epoch \in 0..MaxEpoch
    /\ learning_rate \in LearningRates
    /\ \E h \in Hypers(entry) :
          /\ momentum_decay = h.momentum_decay
          /\ squared_gradient_decay = h.squared_gradient_decay
          /\ epsilon = h.epsilon
    /\ initial_solution \in InitialSolutions
    /\ calculate_gradient \in GradientSources
    /\ current_solution = <<>>
    /\ momentum = <<>>
    /\ squared_gradients = <<>>
    /\ counter = 0
    /\ epoch = 0
    /\ idx = 0
    /\ gradient = <<>>
    /\ X_selected = <<>>
    /\ y_selected = <<>>
    /\ calls = 0
    /\ batches = <<>>
    /\ output = <<>>
    /\ err = "none"
    /\ result = <<>>

\* stochastic_gradient_descent.optimize and full_batch_gradient_descent.optimize:
\* the call of mini_batch_gradient_descent().optimize with batch_size=1,
\* respectively batch_fraction=1
Delegate ==
    /\ pc = "call"
    /\ cls \in Wrappers
    /\ cls' = MiniBatch
    /\ batch_size' = IF cls = SGD THEN PyInt(1) ELSE batch_size
    /\ batch_fraction' = IF cls = FullBatch THEN PyInt(1) ELSE batch_fraction
    /\ UNCHANGED <<pc, entry, data, iterations, hyper, locals, epoch, idx, batch,
                   batches, output, err, result>>

\* Optimizer.transfer_data_to_numpy: an ndarray is passed through (the local
\* is bound to the caller's object), a DataFrame or Series is converted into
\* an array object of its own
transfer_data_to_numpy(h, k) ==
    IF k = "ndarray"
    THEN [heap |-> h, X |-> "callerX", y |-> "callerY"]
    ELSE [heap |-> [h EXCEPT !.workX = h.callerX, !.workY = h.callerY],
          X |-> "workX", y |-> "workY"]

\* The head of optimize: the conversion of X and y (arrays or tables, as the
\* caller passed them), the plan and the initial locals
Prepare ==
    /\ pc = "call"
    /\ cls \notin Wrappers
    /\ \E kind \in InputKinds :
       LET t == transfer_data_to_numpy(heap, kind)
           p == calculate_batch_size_and_iteration(batch_size, batch_fraction,
                                                   Shape0(t.heap, t.X))
       IN /\ heap' = t.heap
          /\ Xref' = t.X
          /\ yref' = t.y
          /\ IF p.err # "none"
             THEN /\ pc' = "error"
                  /\ err' = p.err
                  /\ UNCHANGED <<plan, locals>>
             ELSE /\ pc' = "epoch"
                  /\ err' = err
                  /\ batch_size' = p.batch_size
                  /\ iterations' = p.iterations
                  /\ batch_fraction' = batch_fraction
                  /\ current_solution' = initial_solution
                  /\ momentum' = IF cls \in {Momentum, Adam}
                                 THEN zeros_like(initial_solution) ELSE momentum
                  /\ squared_gradients' = IF cls \in {Adagrad, RMSProp, Adam}
                                          THEN zeros_like(initial_solution)
                                          ELSE squared_gradients
                  /\ counter' = counter
    /\ UNCHANGED <<entry, cls, hyper, epoch, idx, batch, batches, output, result>>

\* a shuffle that permutes the rows of the bound objects in place
ShuffleInPlace(h, xr, yr, p) ==
    [heap |-> [h EXCEPT ![xr] = Take(h[xr], p), ![yr] = Take(h[yr], p)],
     X |-> xr, y |-> yr]

\* a shuffle that permutes the inputs and leaves the targets in their order
ShuffleInputsOnly(h, xr, yr, p) ==
    [heap |-> [h EXCEPT !.workX = Take(h[xr], p), !.workY = h[yr]],
     X |-> "workX", y |-> "workY"]

\* X, y = X[shuffled_idx], y[shuffled_idx]: indexing with an index array
\* builds new array objects and rebinds the locals to them
Shuffle(h, xr, yr, p) ==
    [heap |-> [h EXCEPT !.workX = Take(h[xr], p), !.workY = Take(h[yr], p)],
     X |-> "workX", y |-> "workY"]

\* the head of the outer loop with adam applying the permutation as well
EpochBeginShufflingAdam ==
    /\ pc = "epoch"
    /\ epoch < max_num_epoch
    /\ \E p \in IndexPermutations(Shape0(heap, Xref)) :
          LET sh == Shuffle(heap, Xref, yref, p)
          IN /\ heap' = sh.heap
             /\ Xref' = sh.X
             /\ yref' = sh.y
    /\ idx' = 0
    /\ batches' = <<>>
    /\ pc' = "batch"
    /\ UNCHANGED <<entry, cls, plan, hyper, locals, epoch, batch, output,
                   err, result>>

\* The head of the outer loop with an epoch left: a fresh permutation, which
\* every class but adam applies to its rows
EpochBegin ==
    /\ pc = "epoch"
    /\ epoch < max_num_epoch
    /\ \E p \in IndexPermutations(Shape0(heap, Xref)) :
          LET sh == IF cls = Adam
                    THEN [heap |-> heap, X |-> Xref, y |-> yref]
                    ELSE Shuffle(heap, Xref, yref, p)
          IN /\ heap' = sh.heap
             /\ Xref' = sh.X
             /\ yref' = sh.y
    /\ idx' = 0
    /\ batches' = <<>>
    /\ pc' = "batch"
    /\ UNCHANGED <<entry, cls, plan, hyper, locals, epoch, batch, output,
                   err, result>>

\* the update rule of the running class
Step(c, cs, m, s, n, g) ==
    CASE c = MiniBatch -> mini_batch_step(cs, m, s, n, g, learning_rate)
      [] c = Momentum -> momentum_step(cs, m, s, n, g, learning_rate, momentum_decay)
      [] c = Adagrad -> adagrad_step(cs, m, s, n, g, learning_rate, epsilon)
      [] c = RMSProp -> rmsprop_step(cs, m, s, n, g, learning_rate,
                                     squared_gradient_decay, epsilon)
      [] c = Adam -> adam_step(cs, m, s, n, g, learning_rate, momentum_decay,
                               squared_gradient_decay, epsilon)

\* One pass of the inner loop: the batch is sliced, the gradient source is
\* called on it and the update rule is applied
Batch ==
    /\ pc = "batch"
    /\ idx < iterations
    /\ X_selected' = Slice(heap[Xref], idx * batch_size.n, (idx + 1) * batch_size.n)
    /\ y_selected' = Slice(heap[yref], idx * batch_size.n, (idx + 1) * batch_size.n)
    /\ calls' = calls + 1
    /\ batches' = Append(batches, [X |-> X_selected', y |-> y_selected'])
    /\ \E l \in 1..MaxLen :
          LET g == GradientOf(calculate_gradient, current_solution, l)
              r == Step(cls, current_solution, momentum, squared_gradients,
                        counter, g)
          IN /\ gradient' = g
             /\ current_solution' = r.current_solution
             /\ momentum' = r.momentum
             /\ squared_gradients' = r.squared_gradients
             /\ counter' = r.counter
             /\ err' = r.err
             /\ pc' = IF r.err = "none" THEN "batch" ELSE "error"
             /\ idx' = IF r.err = "none" THEN idx + 1 ELSE idx
    /\ UNCHANGED <<entry, cls, data, plan, hyper, epoch, output, result>>

\* every class printing the epoch index
ObservationIndexOnly(c, i, cs) ==
    [label |-> "Epoch:", index |-> i, solution |-> <<>>]

\* print("Epoch:", current_solution), and in adam print("Epoch:", i)
Observation(c, i, cs) ==
    IF c = Adam
    THEN [label |-> "Epoch:", index |-> i, solution |-> <<>>]
    ELSE [label |-> "Epoch:", index |-> -1, solution |-> cs]

\* The inner loop is exhausted: the epoch's print, and the next epoch.  The
\* views X_selected and y_selected are dead from here on (the next inner loop
\* rebinds them before any use): the model drops them.
EpochEnd ==
    /\ pc = "batch"
    /\ idx >= iterations
    /\ output' = Append(output, Observation(cls, epoch, current_solution))
    /\ epoch' = epoch + 1
    /\ pc' = "epoch"
    /\ X_selected' = <<>>
    /\ y_selected' = <<>>
    /\ UNCHANGED <<entry, cls, data, plan, hyper, locals, idx, gradient, calls,
                   batches, err, result>>

\* The outer loop is exhausted: return current_solution
Return ==
    /\ pc = "epoch"
    /\ epoch >= max_num_epoch
    /\ result' = current_solution
    /\ pc' = "done"
    /\ UNCHANGED <<entry, cls, data, plan, hyper, locals, epoch, idx, batch,
                   batches, output, err>>

Next == Delegate \/ Prepare \/ EpochBegin \/ Batch \/ EpochEnd \/ Return

Spec == Init /\ [][Next]_vars


\* ------------------------------------------------------------- properties
\* Python's a // b
FloorDiv(a, b) ==
    LET q == TruncDiv(a, b) IN IF q * b # a /\ (a < 0) # (b < 0) THEN q - 1 ELSE q

N == Shape0(heap, Xref)
Started == pc # "call"
PlanFailed == err \in {"AssertionError", "ZeroDivisionError"}
Planned == Started /\ ~PlanFailed
ValidFraction(bf) == bf.type # "None" /\ 0 < bf.n /\ bf.n <= bf.d
BadFraction(bf) == bf.type # "None" /\ ~(0 < bf.n /\ bf.n <= bf.d)
FractionIsOne(bf) == bf.type # "None" /\ bf.n = bf.d
Max(a, b) == IF a >= b THEN a ELSE b

\* C1: for every sample count and every accepted configuration (an integer
\* batch_size with no batch_fraction, or with a batch_fraction in (0, 1]) the
\* planner returns a plan with batch_size >= 1 and iterations == N // batch_size.
C1_PlanForEveryAccepted ==
    (Started /\ batch_size.type = "int"
        /\ (batch_fraction = None \/ ValidFraction(batch_fraction)))
    => /\ ~PlanFailed
       /\ batch_size.n >= 1
       /\ iterations = FloorDiv(N, batch_size.n)

\* C2: a batch_fraction outside 0 < f <= 1 ends optimize with the
\* configuration error (the failed assertion) before any gradient call, in
\* every class.
C2_BadFractionRejected ==
    BadFraction(batch_fraction)
    => /\ pc \in {"call", "error"}
       /\ calls = 0
       /\ output = <<>>
       /\ pc = "error" => err = "AssertionError"

C2_Witness ==
    /\ BadFraction(batch_fraction)
    /\ batch_size.type = "int"
    /\ cls = Adam
    /\ pc = "error"

\* C3: with no batch_fraction, a batch_size that is not a positive integer
\* ends optimize with the configuration error: the epoch loop is never
\* entered and no solution is returned.
C3_BadBatchSizeRejected ==
    (batch_fraction = None /\ ~(batch_size.type = "int" /\ batch_size.n >= 1))
    => /\ pc \in {"call", "error"}
       /\ pc = "error" => err = "AssertionError"

\* C4: a gradient whose shape differs from that of the current parameters
\* aborts optimize on that batch, with no update applied.
C4_ShapeMismatchAborts ==
    [][(calls' = calls + 1 /\ Len(gradient') # Len(current_solution))
       => /\ pc' = "error"
          /\ current_solution' = current_solution
          /\ initial_solution' = initial_solution]_vars

\* C5: a returning optimize call has run exactly max_num_epoch epochs and made
\* exactly max_num_epoch * iterations gradient calls, whatever the accepted
\* configuration and the gradients.
C5_EpochCountDriven ==
    pc = "done" => epoch = max_num_epoch /\ calls = max_num_epoch * iterations

\* C6: the caller's inputs and targets keep their rows and row order at every
\* point of an optimize call; the permutations go to working copies.
C6_CallerArraysUntouched ==
    /\ heap.callerX = Ident(Len(heap.callerX))
    /\ heap.callerY = Ident(Len(heap.callerY))

C6_Witness ==
    /\ pc = "done"
    /\ epoch = 2
    /\ Xref = "workX"
    /\ heap.workX # heap.callerX
    /\ heap.workY # heap.callerY

\* C7: an invalid epsilon or decay is rejected with the configuration error
\* before the epoch loop, so before any gradient call or update (stated for
\* calls whose batch configuration is valid, so that nothing else is at fault).
InvalidDecay(d) == d.k = "fin" /\ ~(0 <= d.v /\ d.v < Scale)
InvalidEpsilon(e) == e.k = "fin" /\ e.v <= 0
C7_BadHyperRejected ==
    (/\ \/ InvalidEpsilon(epsilon)
        \/ InvalidDecay(momentum_decay)
        \/ InvalidDecay(squared_gradient_decay)
     /\ batch_size.type = "int" /\ batch_size.n >= 1
     /\ batch_fraction = None \/ ValidFraction(batch_fraction))
    => /\ pc \in {"call", "error"}
       /\ calls = 0
       /\ pc = "error" => err = "AssertionError"

\* C8, as claimed: one observation per epoch, each carrying the epoch index
\* and the parameter snapshot.
C8_ObservationCarriesIndexAndSnapshot ==
    /\ Len(output) = epoch
    /\ \A i \in 1..Len(output) :
          output[i].index = i - 1 /\ output[i].solution # <<>>

\* C8, amended: exactly one observation is printed per epoch (max_num_epoch
\* of them when optimize returns), each when the epoch's inner loop is
\* exhausted, after its last update and before any gradient call of the next
\* epoch, and nothing else is printed; in adam the observation carries the
\* epoch index and no parameters, in the other classes the current
\* parameters and no epoch index.
C8_OneObservationPerEpoch ==
    /\ [](/\ Len(output) = epoch
          /\ pc = "done" => Len(output) = max_num_epoch)
    /\ [][output' # output
          => /\ pc = "batch" /\ idx >= iterations
             /\ calls = (epoch + 1) * Max(iterations, 0)
             /\ calls' = calls
             /\ current_solution' = current_solution
             /\ output' = Append(output,
                   IF cls = Adam
                   THEN [label |-> "Epoch:", index |-> epoch, solution |-> <<>>]
                   ELSE [label |-> "Epoch:", index |-> -1,
                         solution |-> current_solution])]_vars
    /\ [][calls' # calls => output' = output /\ Len(output) = epoch]_vars

C8_Witness ==
    /\ pc = "done"
    /\ cls = RMSProp
    /\ Len(output) = 2
    /\ calls = 6
    /\ output[1].solution # output[2].solution

\* C9, as claimed: batch_fraction = 1 plans batch_size == N and one iteration
\* per epoch for every sample count N.
C9_FullBatchForEveryN ==
    (Started /\ FractionIsOne(batch_fraction) /\ batch_size.type = "int")
    => ~PlanFailed /\ batch_size.n = N /\ iterations = 1

\* C9, amended: for every sample count N >= 1, batch_fraction = 1 plans
\* batch_size == N and one iteration per epoch whatever integer batch_size
\* was requested, and each epoch makes exactly one gradient call, on all N
\* rows.
C9_FullBatchPlan ==
    (Started /\ FractionIsOne(batch_fraction) /\ batch_size.type = "int" /\ N >= 1)
    => /\ ~PlanFailed
       /\ batch_size.n = N
       /\ iterations = 1
       /\ pc \in {"epoch", "done"} => calls = epoch
       /\ pc = "batch" =>
             /\ idx <= 1
             /\ calls = epoch + idx
             /\ idx = 1 => /\ X_selected = heap[Xref]
                           /\ y_selected = heap[yref]
                           /\ Len(X_selected) = N

C9_Witness ==
    /\ entry = FullBatch
    /\ FractionIsOne(batch_fraction)
    /\ pc = "done"
    /\ N = 3
    /\ batch_size.n = 3
    /\ epoch = 2
    /\ calls = 2

\* C10: in Momentum the velocity is zero before the first batch, changes only
\* by the per-batch step v' = decay * v - learning_rate * gradient followed by
\* params' = params + v', and so is carried unchanged across epoch boundaries;
\* with params [0.0], gradient [1.0], learning_rate 0.1, decay 0.5, one epoch
\* of one batch, the velocity ends as -0.1 and [-0.1] is returned.
MomentumScenario ==
    /\ cls = Momentum
    /\ initial_solution = <<F(0)>>
    /\ learning_rate = F(Scale \div 10)
    /\ momentum_decay = F(Scale \div 2)
    /\ max_num_epoch = 1
    /\ iterations = 1
    /\ pc = "done"
    /\ gradient = <<F(Scale)>>

C10_MomentumVelocity ==
    /\ []((cls = Momentum /\ Planned /\ calls = 0)
          => momentum = [i \in 1..Len(initial_solution) |-> F(0)])
    /\ [][(cls = Momentum /\ Started)
          => \/ momentum' = momentum
             \/ /\ calls' = calls + 1
                /\ momentum' = TSub(TScale(momentum_decay, momentum),
                                    TScale(learning_rate, gradient'))
                /\ current_solution' = TAdd(current_solution, momentum')]_vars
    /\ [](MomentumScenario
          => /\ momentum = <<F(-(Scale \div 10))>>
             /\ result = <<F(-(Scale \div 10))>>)

C10_Witness ==
    /\ MomentumScenario
    /\ momentum = <<F(-(Scale \div 10))>>
    /\ result = <<F(-(Scale \div 10))>>

\* Python's a % b
PyMod(a, b) == a - b * FloorDiv(a, b)
Rows(a) == {a[i] : i \in 1..Len(a)}
ShufflingRun == cls \in {MiniBatch, Momentum, Adagrad, RMSProp} /\ Planned
\* the inner loop of the running epoch is exhausted, or an earlier epoch was
\* completed and no later one begun
EpochComplete ==
    \/ pc = "batch" /\ idx >= iterations
    \/ pc \in {"epoch", "done"} /\ epoch >= 1
\* the batches given so far are the leading contiguous slices of the epoch's
\* row order, batch_size rows each, no row twice; a completed epoch has given
\* iterations of them and left N mod batch_size rows out
BatchesPartitionEpoch ==
    /\ \A i \in 1..Len(batches) :
          /\ Len(batches[i].X) = batch_size.n
          /\ batches[i].X = [j \in 1..batch_size.n |->
                                heap[Xref][(i - 1) * batch_size.n + j]]
          /\ Cardinality(Rows(batches[i].X)) = batch_size.n
    /\ \A i, j \in 1..Len(batches) :
          i # j => Rows(batches[i].X) \cap Rows(batches[j].X) = {}
    /\ EpochComplete =>
          /\ Len(batches) = iterations
          /\ Cardinality({r \in Rows(heap[Xref]) :
                             \A i \in 1..Len(batches) : r \notin Rows(batches[i].X)})
                = PyMod(N, batch_size.n)

\* C11: in every epoch of the four shuffling optimizers the gradient source
\* is called on iterations batches that are contiguous slices of the epoch's
\* permutation, batch_size rows each and pairwise disjoint; every sample is
\* used at most once and exactly N mod batch_size samples in no batch.
C11_BatchesPartitionEpoch ==
    ShufflingRun => BatchesPartitionEpoch

\* C11 in the runs whose planned batch_size is positive
C11_WhenBatchSizePositive ==
    (ShufflingRun /\ batch_size.n >= 1) => BatchesPartitionEpoch

C11_LeftoverWitness ==
    /\ ShufflingRun
    /\ pc = "done"
    /\ N = 3
    /\ batch_size.n = 2
    /\ epoch = 2
    /\ Len(batches) = 1
    /\ batches[1].X # <<1, 2>>

AdamRun == cls = Adam /\ Planned /\ pc \in {"epoch", "batch", "done"}
\* the batches of the current epoch completed so far
BatchesDone == IF pc = "batch" THEN idx ELSE 0
CounterCountsBatches ==
    /\ calls = 0 => counter = 0
    /\ counter = epoch * iterations + BatchesDone
    /\ calls >= 1 => counter >= 1

\* C12: in Adam the step counter is 0 before the first batch, is incremented
\* once per mini-batch and never reset: after e completed epochs and k batches
\* of the current epoch it is e * iterations + k, and it is at least 1 once an
\* update was made.
C12_AdamCounter ==
    AdamRun => CounterCountsBatches

\* C12 in the runs whose planned batch_size is positive, with the exponent of
\* the bias correction: every update is the adam rule at the counter's new
\* value
C12_WhenBatchSizePositive ==
    /\ []((AdamRun /\ batch_size.n >= 1) => CounterCountsBatches)
    /\ [][(cls = Adam /\ calls' = calls + 1 /\ pc' = "batch")
          => /\ counter' = counter + 1
             /\ counter' = epoch * iterations + idx + 1
             /\ LET cm == TOver(momentum', FSub(One, FPow(momentum_decay, counter')))
                    cs == TOver(squared_gradients',
                                FSub(One, FPow(squared_gradient_decay, counter')))
                IN current_solution' =
                      TSub(current_solution,
                           TDiv(TScale(learning_rate, cm),
                                TPlus(TSqrt(cs), epsilon)))]_vars
    /\ [][(cls = Adam /\ Started /\ calls' = calls) => counter' = counter]_vars

C12_SecondEpochWitness ==
    /\ AdamRun
    /\ pc = "batch"
    /\ epoch = 1
    /\ iterations = 3
    /\ idx = 1
    /\ counter = 4

\* original rows i * batch_size .. (i + 1) * batch_size - 1, i counted from 0
\* (the caller's row k, counted from 0, is the model's row k + 1)
OriginalRows(i) == [j \in 1..batch_size.n |-> i * batch_size.n + j]

\* C13: Adam does not shuffle: in every epoch the rows are in the caller's
\* order and the i-th batch is the original rows i * batch_size ..
\* (i + 1) * batch_size - 1, the same in every epoch; in the other four
\* classes each epoch begins by re-permuting the working rows.
C13_AdamKeepsCallerOrder ==
    /\ []((cls = Adam /\ Started)
          => /\ heap[Xref] = heap.callerX
             /\ heap[yref] = heap.callerY
             /\ \A i \in 1..Len(batches) :
                   /\ batches[i].X = OriginalRows(i - 1)
                   /\ batches[i].y = OriginalRows(i - 1))
    /\ [][(cls = Adam /\ calls' = calls + 1)
          => /\ X_selected' = OriginalRows(idx)
             /\ y_selected' = OriginalRows(idx)]_vars
    /\ [][(cls # Adam /\ pc = "epoch" /\ pc' = "batch")
          => /\ Xref' = "workX" /\ yref' = "workY"
             /\ \E p \in IndexPermutations(N) :
                   /\ heap'.workX = Take(heap[Xref], p)
                   /\ heap'.workY = Take(heap[yref], p)]_vars

C13_Witness ==
    /\ cls = Adam
    /\ pc = "batch"
    /\ epoch = 1
    /\ N = 3
    /\ batch_size.n = 1
    /\ Len(batches) = 3
    /\ batches[3].X = <<3>>

\* a <= b on floats: false when either is a NaN
FLe(a, b) ==
    /\ a.k # "nan" /\ b.k # "nan"
    /\ (IF a.k = "inf" THEN a.v * (MaxFloat + 1) ELSE a.v)
          <= (IF b.k = "inf" THEN b.v * (MaxFloat + 1) ELSE b.v)
FAbs(a) == IF a.k = "nan" THEN NaN ELSE [k |-> a.k, v |-> Abs(a.v)]
\* the step learning_rate * gradient / (sqrt(s) + epsilon)
AdagradStepOf(g, s) ==
    TDiv(TScale(learning_rate, g), TPlus(TSqrt(s), epsilon))
AccumulatorMonotone ==
    /\ calls = 0 => squared_gradients = zeros_like(initial_solution)
    /\ Len(squared_gradients') = Len(squared_gradients)
    /\ \A i \in 1..Len(squared_gradients) :
          FLe(squared_gradients[i], squared_gradients'[i])
    /\ squared_gradients' # squared_gradients
       => /\ calls' = calls + 1
          /\ Compatible(squared_gradients, gradient')
          /\ squared_gradients' = TAdd(squared_gradients, TSquare(gradient'))
\* from one update to the next under the constant gradient 1.0
StepShrinks ==
    (calculate_gradient = "one" /\ calls >= 1 /\ calls' = calls + 1 /\ pc' = "batch")
    => LET before == AdagradStepOf(gradient, squared_gradients)
           after == AdagradStepOf(gradient', squared_gradients')
       IN \A i \in 1..Len(squared_gradients) :
             FLe(FAbs(Elem(after, i)), FAbs(Elem(before, i)))

\* C14: in Adagrad the accumulator s is zero before the first batch and
\* elementwise non-decreasing over every step of the call (s' = s +
\* gradient^2, never decayed, never reset at an epoch boundary); for a
\* constant nonzero gradient stream the magnitude of the step learning_rate *
\* gradient / (sqrt(s) + epsilon) is non-increasing from step to step.
C14_AdagradAccumulatorMonotone ==
    [][(cls = Adagrad /\ Planned) => AccumulatorMonotone /\ StepShrinks]_vars

\* C14 in the runs whose epsilon is positive
C14_WhenEpsilonPositive ==
    [][(cls = Adagrad /\ Planned /\ ~InvalidEpsilon(epsilon))
          => AccumulatorMonotone /\ StepShrinks]_vars

C14_AcrossEpochsWitness ==
    /\ cls = Adagrad
    /\ ~InvalidEpsilon(epsilon)
    /\ calculate_gradient = "one"
    /\ pc = "done"
    /\ epoch = 2
    /\ calls = 6
    /\ squared_gradients = <<F(6 * Scale)>>

\* C15: in the shuffling optimizers, after any number of epochs the working
\* inputs and the working targets are the same permutation of the caller's
\* rows: every original sample appears exactly once, at every position the
\* input row and the target row come from the same sample, and so every batch
\* given to the gradient source pairs each input with its own target.
C15_RowsStayPaired ==
    (cls \in {MiniBatch, Momentum, Adagrad, RMSProp} /\ Started)
    => /\ Len(heap[Xref]) = Len(heap.callerX)
       /\ Rows(heap[Xref]) = Rows(heap.callerX)
       /\ Len(heap[yref]) = Len(heap.callerY)
       /\ Rows(heap[yref]) = Rows(heap.callerY)
       /\ \A i \in 1..Len(heap[Xref]) : heap[Xref][i] = heap[yref][i]
       /\ X_selected = y_selected
       /\ \A i \in 1..Len(batches) :
             /\ Len(batches[i].X) = Len(batches[i].y)
             /\ \A j \in 1..Len(batches[i].X) : batches[i].X[j] = batches[i].y[j]

C15_Witness ==
    /\ cls \in {MiniBatch, Momentum, Adagrad, RMSProp}
    /\ pc = "batch"
    /\ epoch = 1
    /\ N = 3
    /\ batch_size.n = 2
    /\ heap.workX = <<3, 1, 2>>
    /\ heap.workY = <<3, 1, 2>>
    /\ Len(batches) = 1
    /\ batches[1] = [X |-> <<3, 1>>, y |-> <<3, 1>>]

====
